---- MODULE Spec2Model ----
(***************************************************************************)
(* Model of scripts/sync_apple_hig_sources.py: the index walk and          *)
(* de-duplication (walk_nodes, collect_hig_nodes), the text flattener      *)
(* (collect_text_fragments, extract_full_text), the curated-row predicate  *)
(* (is_curated_ios_row), the corpus builders and the sync run              *)
(* (sync_sources, main).                                                   *)
(*                                                                         *)
(* A Python str is a sequence of one-character strings, so that            *)
(* startswith, rsplit, split/join and the ordering used by sorted() are    *)
(* computed and not assumed.  A Python value of unknown type (anything     *)
(* read from JSON) is a record [type, val]; dict keys are only ever        *)
(* compared for equality and are kept as atomic strings.                   *)
(***************************************************************************)
EXTENDS Integers, Sequences, FiniteSets, TLC

VARIABLES
    pc,             \* position of the running function
    index_json,     \* collect_hig_nodes: its argument
    walked,         \* collect_hig_nodes: the list `nodes` filled by walk_nodes
    nodes,          \* collect_hig_nodes: the returned list
    index_json2,    \* a second index, the first one with siblings reordered
    nodes2,         \* collect_hig_nodes(index_json2)
    page_json,      \* extract_full_text: its argument
    fragments,      \* extract_full_text: the list filled by collect_text_fragments
    compact,        \* extract_full_text: the list `compact`
    full_text,      \* extract_full_text(page_json)
    full_text2,     \* extract_full_text({"text": full_text})
    candidate,      \* is_curated_ios_row: its argument `row`
    verdict,        \* is_curated_ios_row(candidate)
    rows,           \* sync_sources: the list `rows`
    ok_count,       \* sync_sources: the counter `ok_count`
    requests,       \* the URLs http_get_json was called with, in order
    index_fetch,    \* how the fetch of the index ended: "none", "ok", "failed"
    mirror,         \* the local page mirror: local_json -> what the file holds
    faults,         \* number of mirrored files lost or damaged from outside
    written,        \* the artifacts this run has written
    catalog,        \* what catalog.json holds
    raw_md,         \* the sections of apple-hig-ios-raw.md
    fulltext_md,    \* the sections of apple-hig-ios-fulltext.md
    curated_md,     \* apple-hig-ios-curated.md: its count and its sections
    uncaught,       \* the class of the exception that ended the run, or ""
    exit_code       \* the exit status of the process, once pc = "exit"

collect_vars == <<index_json, walked, nodes, index_json2, nodes2>>
text_vars == <<page_json, fragments, compact, full_text, full_text2>>
filter_vars == <<candidate, verdict>>
run_vars == <<rows, ok_count, requests, index_fetch, mirror, faults, written,
              catalog, raw_md, fulltext_md, curated_md, uncaught, exit_code>>
vars == <<pc, collect_vars, text_vars, filter_vars, run_vars>>

-----------------------------------------------------------------------------
(* Bounds of the model *)

\* total number of entries (dicts and non-dict items) of an index forest
MaxNodes == 3
\* number of items of the content list of a page
MaxItems == 3
\* number of mirrored files lost or damaged from outside during a run
MaxFaults == 1

-----------------------------------------------------------------------------
(* Python strings *)

\* the characters that occur, in ascending code point order
ASCII ==
    <<"\t", "\n", " ", "(", ")", "-", ".", "/", ":",
      "A", "B", "C", "D", "E", "F", "G", "H", "I", "J", "K", "L", "M",
      "N", "O", "P", "Q", "R", "S", "T", "U", "V", "W", "X", "Y", "Z",
      "a", "b", "c", "d", "e", "f", "g", "h", "i", "j", "k", "l", "m",
      "n", "o", "p", "q", "r", "s", "t", "u", "v", "w", "x", "y", "z">>

ord(c) == CHOOSE i \in 1..Len(ASCII) : ASCII[i] = c

\* s < t for two str, as Python compares them: by code point, then by length
RECURSIVE str_lt(_, _)
str_lt(s, t) ==
    IF t = <<>> THEN FALSE
    ELSE IF s = <<>> THEN TRUE
    ELSE IF Head(s) # Head(t) THEN ord(Head(s)) < ord(Head(t))
    ELSE str_lt(Tail(s), Tail(t))

startswith(s, prefix) ==
    /\ Len(s) >= Len(prefix)
    /\ SubSeq(s, 1, Len(prefix)) = prefix

\* s.rsplit(sep, 1)[-1] for a one-character sep
rsplit_last(s, sep) ==
    LET at == {i \in 1..Len(s) : s[i] = sep}
    IN  IF at = {} THEN s
        ELSE SubSeq(s, (CHOOSE i \in at : \A j \in at : j <= i) + 1, Len(s))

-----------------------------------------------------------------------------
(* Python values of unknown type *)

None == [type |-> "NoneType", val |-> <<>>]
Str(s) == [type |-> "str", val |-> s]
List(items) == [type |-> "list", val |-> items]
\* a dict is its items in insertion order, each <<key, value>>
Dict(items) == [type |-> "dict", val |-> items]

isinstance(v, t) == v.type = t

\* d.get(key, default)
get_or(d, key, default) ==
    LET at == {i \in 1..Len(d.val) : d.val[i][1] = key}
    IN  IF at = {} THEN default ELSE d.val[CHOOSE i \in at : TRUE][2]

\* d.get(key)
get(d, key) == get_or(d, key, None)

-----------------------------------------------------------------------------
(* Module constants *)

PAGE_PREFIX ==
    <<"/", "d", "e", "s", "i", "g", "n", "/", "h", "u", "m", "a", "n", "-",
      "i", "n", "t", "e", "r", "f", "a", "c", "e", "-", "g", "u", "i", "d",
      "e", "l", "i", "n", "e", "s">>

INDEX_URL ==
    <<"h", "t", "t", "p", "s", ":", "/", "/", "d", "e", "v", "e", "l", "o",
      "p", "e", "r", ".", "a", "p", "p", "l", "e", ".", "c", "o", "m", "/",
      "t", "u", "t", "o", "r", "i", "a", "l", "s", "/", "d", "a", "t", "a",
      "/", "i", "n", "d", "e", "x", "/", "d", "e", "s", "i", "g", "n", "-",
      "-", "h", "u", "m", "a", "n", "-", "i", "n", "t", "e", "r", "f", "a",
      "c", "e", "-", "g", "u", "i", "d", "e", "l", "i", "n", "e", "s">>

DATA_BASE ==
    <<"h", "t", "t", "p", "s", ":", "/", "/", "d", "e", "v", "e", "l", "o",
      "p", "e", "r", ".", "a", "p", "p", "l", "e", ".", "c", "o", "m", "/",
      "t", "u", "t", "o", "r", "i", "a", "l", "s", "/", "d", "a", "t", "a">>

\* the site the source URLs of sync_sources are made of
SITE_BASE ==
    <<"h", "t", "t", "p", "s", ":", "/", "/", "d", "e", "v", "e", "l", "o",
      "p", "e", "r", ".", "a", "p", "p", "l", "e", ".", "c", "o", "m">>

NON_IOS_SLUGS ==
    { <<"d", "e", "s", "i", "g", "n", "i", "n", "g", "-", "f", "o", "r", "-",
        "i", "p", "a", "d", "o", "s">>,
      <<"d", "e", "s", "i", "g", "n", "i", "n", "g", "-", "f", "o", "r", "-",
        "m", "a", "c", "o", "s">>,
      <<"d", "e", "s", "i", "g", "n", "i", "n", "g", "-", "f", "o", "r", "-",
        "t", "v", "o", "s">>,
      <<"d", "e", "s", "i", "g", "n", "i", "n", "g", "-", "f", "o", "r", "-",
        "v", "i", "s", "i", "o", "n", "o", "s">>,
      <<"d", "e", "s", "i", "g", "n", "i", "n", "g", "-", "f", "o", "r", "-",
        "w", "a", "t", "c", "h", "o", "s">>,
      <<"d", "e", "s", "i", "g", "n", "i", "n", "g", "-", "f", "o", "r", "-",
        "g", "a", "m", "e", "s">> }

UNKNOWN == <<"u", "n", "k", "n", "o", "w", "n">>
ARTICLE == <<"a", "r", "t", "i", "c", "l", "e">>
SYMBOL == <<"s", "y", "m", "b", "o", "l">>
\* the values of download_status
PENDING == <<"p", "e", "n", "d", "i", "n", "g">>
OK == <<"o", "k">>
ERROR == <<"e", "r", "r", "o", "r">>
\* the suffix of a page's data URL and of its mirrored file
JSON_SUFFIX == <<".", "j", "s", "o", "n">>
\* raw_pages_dir relative to references_dir
RAW_PAGES == <<"r", "a", "w", "/", "p", "a", "g", "e", "s", "/">>
\* the body of a section whose page has no text
NO_TEXT ==
    <<"(", "n", "o", " ", "e", "x", "t", "r", "a", "c", "t", "e", "d", " ",
      "t", "e", "x", "t", ")">>

-----------------------------------------------------------------------------
(* TextFlattener *)

\* the characters str.split() splits at
Whitespace == {" ", "\t", "\n"}

\* value.split(): the maximal runs without whitespace, from the i-th character
\* on; word is the run being read
RECURSIVE split(_, _, _, _)
split(value, i, word, words) ==
    IF i > Len(value)
    THEN IF word = <<>> THEN words ELSE Append(words, word)
    ELSE IF value[i] \in Whitespace
    THEN split(value, i + 1, <<>>, IF word = <<>> THEN words ELSE Append(words, word))
    ELSE split(value, i + 1, Append(word, value[i]), words)

\* sep.join(parts)
RECURSIVE join(_, _)
join(sep, parts) ==
    IF parts = <<>> THEN <<>>
    ELSE IF Len(parts) = 1 THEN parts[1]
    ELSE parts[1] \o sep \o join(sep, Tail(parts))

\* a normalize_space that returns its argument as it is
normalize_space_none(value) == value

normalize_space(value) == join(<<" ">>, split(value, 1, <<>>, <<>>))

RECURSIVE collect_text_fragments(_, _)
RECURSIVE collect_items(_, _, _)
RECURSIVE collect_list(_, _, _)

\* collect_text_fragments(value, out): the list out after the call
collect_text_fragments(value, out) ==
    IF isinstance(value, "dict") THEN collect_items(value.val, 1, out)
    ELSE IF isinstance(value, "list") THEN collect_list(value.val, 1, out)
    ELSE out

\* the loop `for key, child in value.items()`, from the i-th item on
collect_items(items, i, out) ==
    IF i > Len(items) THEN out
    ELSE LET key == items[i][1]
             child == items[i][2]
         IN  collect_items(items, i + 1,
                IF key = "text" /\ isinstance(child, "str")
                THEN LET text == normalize_space(child.val)
                     IN  IF text # <<>> THEN Append(out, text) ELSE out
                ELSE collect_text_fragments(child, out))

\* the loop `for child in value` over a list, from the i-th element on
collect_list(items, i, out) ==
    IF i > Len(items) THEN out
    ELSE collect_list(items, i + 1, collect_text_fragments(items[i], out))

\* the fragments collect_text_fragments finds in a page
fragments_of(page) == collect_text_fragments(page, <<>>)

\* the value `last` starts with: None, which equals no fragment
NoLast == <<"None">>

\* a compaction that drops every fragment already kept, adjacent or not
RECURSIVE compact_all(_, _, _, _)
compact_all(frags, i, kept, last) ==
    IF i > Len(frags) THEN kept
    ELSE IF \A k \in 1..Len(kept) : kept[k] # frags[i]
    THEN compact_all(frags, i + 1, Append(kept, frags[i]), frags[i])
    ELSE compact_all(frags, i + 1, kept, last)

\* the loop `for fragment in fragments` of extract_full_text, from the i-th
\* fragment on
RECURSIVE compact_of(_, _, _, _)
compact_of(frags, i, kept, last) ==
    IF i > Len(frags) THEN kept
    ELSE IF frags[i] # last
    THEN compact_of(frags, i + 1, Append(kept, frags[i]), frags[i])
    ELSE compact_of(frags, i + 1, kept, last)

\* the separator extract_full_text joins with
PARAGRAPH == <<"\n", "\n">>

extract_full_text(page) ==
    join(PARAGRAPH, compact_of(fragments_of(page), 1, <<>>, NoLast))

-----------------------------------------------------------------------------
(* NodeCollector *)

\* the dataclass Node
Node(path, title, kind, parent_path) ==
    [path |-> path, title |-> title, kind |-> kind, parent_path |-> parent_path]

\* the test of walk_nodes that accepts a node
accepts(path) == isinstance(path, "str") /\ startswith(path.val, PAGE_PREFIX)

\* a walk in which every node, accepted or not, becomes the parent context
current_parent_always(path, parent_path) == path

\* the parent context walk_nodes hands to the children of a node
current_parent_of(path, parent_path) ==
    IF accepts(path) THEN path ELSE parent_path

RECURSIVE walk_nodes(_, _, _)
RECURSIVE walk_children(_, _, _, _)

\* walk_nodes(node, parent_path, out): the list out after the call
walk_nodes(node, parent_path, out) ==
    LET path == get(node, "path")
        title == get(node, "title")
        kind == get(node, "type")
        out1 == IF accepts(path)
                THEN Append(out,
                        Node(path.val,
                             IF isinstance(title, "str") THEN title.val
                             ELSE rsplit_last(path.val, "/"),
                             IF isinstance(kind, "str") THEN kind.val
                             ELSE UNKNOWN,
                             parent_path))
                ELSE out
        current_parent == current_parent_of(path, parent_path)
        children == get(node, "children")
    IN  IF isinstance(children, "list")
        THEN walk_children(children.val, 1, current_parent, out1)
        ELSE out1

\* the loop `for child in children` of walk_nodes, from the i-th child on
walk_children(children, i, current_parent, out) ==
    IF i > Len(children) THEN out
    ELSE walk_children(children, i + 1, current_parent,
            IF isinstance(children[i], "dict")
            THEN walk_nodes(children[i], current_parent, out)
            ELSE out)

\* the loop `for root in swift_tree` of collect_hig_nodes, from the i-th root on
RECURSIVE walk_roots(_, _, _)
walk_roots(swift_tree, i, out) ==
    IF i > Len(swift_tree) THEN out
    ELSE walk_roots(swift_tree, i + 1,
            IF isinstance(swift_tree[i], "dict")
            THEN walk_nodes(swift_tree[i], None, out)
            ELSE out)

\* index_json.get("interfaceLanguages", {}).get("swift", [])
swift_tree_of(index) ==
    get_or(get_or(index, "interfaceLanguages", Dict(<<>>)), "swift", List(<<>>)).val

\* a dict assignment that keeps the value an existing key already has
dict_set_first_wins(items, key, value) ==
    IF \E i \in 1..Len(items) : items[i][1] = key
    THEN items
    ELSE Append(items, <<key, value>>)

\* dedup[key] = value on a dict kept as its items in insertion order: an
\* existing key keeps its place and takes the new value
dict_set(items, key, value) ==
    IF \E i \in 1..Len(items) : items[i][1] = key
    THEN [i \in 1..Len(items) |->
            IF items[i][1] = key THEN <<key, value>> ELSE items[i]]
    ELSE Append(items, <<key, value>>)

\* the loop `for node in nodes: dedup[node.path] = node`
RECURSIVE dedup_of(_, _, _)
dedup_of(ns, i, dedup) ==
    IF i > Len(ns) THEN dedup
    ELSE dedup_of(ns, i + 1, dict_set(dedup, ns[i].path, ns[i]))

\* dedup.values()
dict_values(items) == [i \in 1..Len(items) |-> items[i][2]]

\* the key order of sorted(..., key=lambda n: n.path)
path_lt(a, b) == str_lt(a.path, b.path)

\* an insertion that leaves the values in the order they come in
insert_at_end(sorted, n) == Append(sorted, n)

\* one element put into a list sorted by path, after the elements not greater
\* than it (sorted() is stable)
RECURSIVE insert_by_path(_, _)
insert_by_path(sorted, n) ==
    IF sorted = <<>> THEN <<n>>
    ELSE IF path_lt(n, Head(sorted)) THEN <<n>> \o sorted
    ELSE <<Head(sorted)>> \o insert_by_path(Tail(sorted), n)

\* sorted(values, key=lambda n: n.path), from the i-th value on
RECURSIVE sorted_by_path(_, _, _)
sorted_by_path(values, i, acc) ==
    IF i > Len(values) THEN acc
    ELSE sorted_by_path(values, i + 1, insert_by_path(acc, values[i]))

\* the list `nodes` of collect_hig_nodes after the walk of every root
walked_nodes(index) == walk_roots(swift_tree_of(index), 1, <<>>)

collect_hig_nodes(index) ==
    sorted_by_path(dict_values(dedup_of(walked_nodes(index), 1, <<>>)), 1, <<>>)

-----------------------------------------------------------------------------
(* PageFilter *)

\* a filter that does not look at the kind of the row
is_curated_any_kind(row) ==
    IF row.download_status # Str(OK) THEN FALSE
    ELSE IF ~isinstance(row.path, "str") THEN FALSE
    ELSE rsplit_last(row.path.val, "/") \notin NON_IOS_SLUGS

\* a filter that looks the whole path up in the exclusion set
is_curated_whole_path(row) ==
    IF row.download_status # Str(OK) THEN FALSE
    ELSE IF row.kind # Str(ARTICLE) THEN FALSE
    ELSE IF ~isinstance(row.path, "str") THEN FALSE
    ELSE row.path.val \notin NON_IOS_SLUGS

\* a row is a dict; row.get(key) is the field, None when the key is missing
is_curated_ios_row(row) ==
    IF row.download_status # Str(OK) THEN FALSE
    ELSE IF row.kind # Str(ARTICLE) THEN FALSE
    ELSE IF ~isinstance(row.path, "str") THEN FALSE
    ELSE rsplit_last(row.path.val, "/") \notin NON_IOS_SLUGS

-----------------------------------------------------------------------------
(* Exceptions *)

\* the base class of the exception classes that occur
BaseClass ==
    [c \in {"HTTPError", "URLError", "TimeoutError", "OSError",
            "JSONDecodeError", "UnicodeDecodeError", "ValueError",
            "AttributeError"} |->
        CASE c = "HTTPError" -> "URLError"
          [] c = "URLError" -> "OSError"
          [] c = "TimeoutError" -> "OSError"
          [] c = "JSONDecodeError" -> "ValueError"
          [] c = "UnicodeDecodeError" -> "ValueError"
          [] OTHER -> "Exception"]

RECURSIVE issubclass(_, _)
issubclass(c, d) ==
    \/ c = d
    \/ c \in DOMAIN BaseClass /\ issubclass(BaseClass[c], d)

\* the classes named by the except clause of the page loop
PAGE_EXCEPT == {"HTTPError", "URLError", "TimeoutError", "JSONDecodeError", "OSError"}

\* whether the except clause of the page loop catches an exception of class exc
page_except(exc) == \E c \in PAGE_EXCEPT : issubclass(exc, c)

\* str(exc) of an exception of a class
message_of(exc) ==
    CASE exc = "HTTPError" ->
            <<"H", "T", "T", "P", " ", "E", "r", "r", "o", "r", ":", " ", " ",
              "N", "o", "t", " ", "F", "o", "u", "n", "d">>
      [] exc = "TimeoutError" ->
            <<"t", "i", "m", "e", "d", " ", "o", "u", "t">>
      [] exc = "JSONDecodeError" ->
            <<"E", "x", "p", "e", "c", "t", "i", "n", "g", " ", "v", "a", "l",
              "u", "e", ":", "\n", "l", "i", "n", "e">>
      [] OTHER ->
            <<"N", "o", " ", "s", "p", "a", "c", "e", " ", "l", "e", "f", "t">>

-----------------------------------------------------------------------------
(* Fetching *)

\* what the remote answers to a GET: urlopen or read raise an exception of
\* class `raises`; else the body is UTF-8 or not, is JSON or not, and parses
\* to doc
Response(raises, utf8, parses, doc) ==
    [raises |-> raises, utf8 |-> utf8, parses |-> parses, doc |-> doc]

\* http_get_json against a response: the class of the exception it raises
\* ("" when it returns) and the value it returns
http_get_json(response) ==
    IF response.raises # "" THEN [exc |-> response.raises, value |-> None]
    ELSE IF ~response.utf8 THEN [exc |-> "UnicodeDecodeError", value |-> None]
    ELSE IF ~response.parses THEN [exc |-> "JSONDecodeError", value |-> None]
    ELSE [exc |-> "", value |-> response.doc]

\* the loop `for item in abstract` of extract_abstract, from the i-th item on
RECURSIVE abstract_parts(_, _, _)
abstract_parts(items, i, parts) ==
    IF i > Len(items) THEN parts
    ELSE abstract_parts(items, i + 1,
            IF isinstance(items[i], "str") THEN Append(parts, items[i].val)
            ELSE IF isinstance(items[i], "dict")
                    /\ isinstance(get(items[i], "text"), "str")
            THEN Append(parts, get(items[i], "text").val)
            ELSE parts)

\* extract_abstract of a page that is a dict
extract_abstract(page) ==
    LET abstract == get(page, "abstract")
    IN  IF isinstance(abstract, "str") THEN normalize_space(abstract.val)
        ELSE IF isinstance(abstract, "list")
                /\ abstract_parts(abstract.val, 1, <<>>) # <<>>
        THEN normalize_space(join(<<" ">>, abstract_parts(abstract.val, 1, <<>>)))
        ELSE <<>>

\* path.lstrip(ch)
RECURSIVE lstrip(_, _)
lstrip(s, ch) ==
    IF s # <<>> /\ Head(s) = ch THEN lstrip(Tail(s), ch) ELSE s

\* path_to_local_json(raw_pages_dir, path) relative to references_dir, the
\* value of the row's "local_json"
path_to_local_json(path) == RAW_PAGES \o lstrip(path, "/") \o JSON_SUFFIX

\* the row sync_sources makes of a node before the fetch
pending_row(node) ==
    [path |-> Str(node.path),
     title |-> Str(node.title),
     kind |-> Str(node.kind),
     parent_path |-> node.parent_path,
     source_url |-> Str(SITE_BASE \o node.path),
     data_url |-> Str(DATA_BASE \o node.path \o JSON_SUFFIX),
     local_json |-> Str(path_to_local_json(node.path)),
     download_status |-> Str(PENDING),
     abstract |-> Str(<<>>),
     error |-> Str(<<>>)]

\* what a mirrored file holds after a write that failed part-way, or after
\* damage from outside: text that json.loads rejects
CORRUPT == [type |-> "corrupt", val |-> <<>>]

\* the try block of the page loop against a response and an outcome of the
\* write ("ok"; "refused": OSError before the file is opened; "partial":
\* OSError after it was truncated): the exception it raises ("" for none),
\* the abstract, and whether and what it left in the mirrored file
try_page(response, disk) ==
    LET got == http_get_json(response)
    IN  IF got.exc # ""
        THEN [exc |-> got.exc, abstract |-> <<>>, stores |-> FALSE, holds |-> None]
        ELSE IF disk = "refused"
        THEN [exc |-> "OSError", abstract |-> <<>>, stores |-> FALSE, holds |-> None]
        ELSE IF disk = "partial"
        THEN [exc |-> "OSError", abstract |-> <<>>, stores |-> TRUE, holds |-> CORRUPT]
        ELSE IF ~isinstance(got.value, "dict")
        THEN [exc |-> "AttributeError", abstract |-> <<>>, stores |-> TRUE,
              holds |-> got.value]
        ELSE [exc |-> "", abstract |-> extract_abstract(got.value),
              stores |-> TRUE, holds |-> got.value]

\* the row after the try and except blocks of the page loop
fetched_row(pending, tried) ==
    IF tried.exc = ""
    THEN [pending EXCEPT !.abstract = Str(tried.abstract),
                         !.download_status = Str(OK)]
    ELSE [pending EXCEPT !.download_status = Str(ERROR),
                         !.error = Str(normalize_space(message_of(tried.exc)))]

-----------------------------------------------------------------------------
(* CorpusAssembler *)

\* json.loads(local_path.read_text()) succeeds
readable(files, local_rel) ==
    /\ local_rel \in DOMAIN files
    /\ files[local_rel] # CORRUPT

\* the body of a page's section
section_text(page) ==
    IF extract_full_text(page) # <<>> THEN extract_full_text(page) ELSE NO_TEXT

\* the loop `for row in catalog_rows` of build_raw_markdown, from the i-th row on
RECURSIVE raw_sections(_, _, _)
raw_sections(catalog_rows, i, sections) ==
    IF i > Len(catalog_rows) THEN sections
    ELSE LET r == catalog_rows[i]
         IN  raw_sections(catalog_rows, i + 1,
                Append(sections,
                    [title |-> r.title.val, path |-> r.path.val, kind |-> r.kind.val,
                     parent |-> r.parent_path,
                     source_url |-> r.source_url.val, data_url |-> r.data_url.val,
                     local_json |-> r.local_json.val,
                     abstract |-> r.abstract.val,
                     download |-> r.download_status.val]))

\* the loop `for row in catalog_rows` of build_fulltext_markdown, from the
\* i-th row on
RECURSIVE fulltext_sections(_, _, _, _)
fulltext_sections(catalog_rows, files, i, sections) ==
    IF i > Len(catalog_rows) THEN sections
    ELSE LET r == catalog_rows[i]
         IN  fulltext_sections(catalog_rows, files, i + 1,
                IF r.download_status # Str(OK) THEN sections
                ELSE IF ~isinstance(r.local_json, "str") THEN sections
                ELSE IF ~readable(files, r.local_json.val) THEN sections
                ELSE Append(sections,
                        [title |-> r.title.val, path |-> r.path.val,
                         source_url |-> r.source_url.val,
                         data_url |-> r.data_url.val,
                         text |-> section_text(files[r.local_json.val])]))

\* curated_rows of build_curated_markdown
curated_rows_of(catalog_rows) == SelectSeq(catalog_rows, is_curated_ios_row)

\* the loop `for row in curated_rows` of build_curated_markdown, from the i-th
\* row on
RECURSIVE curated_sections(_, _, _, _)
curated_sections(curated_rows, files, i, sections) ==
    IF i > Len(curated_rows) THEN sections
    ELSE LET r == curated_rows[i]
         IN  curated_sections(curated_rows, files, i + 1,
                IF ~isinstance(r.local_json, "str") THEN sections
                ELSE IF ~readable(files, r.local_json.val) THEN sections
                ELSE Append(sections,
                        [title |-> r.title.val, path |-> r.path.val,
                         source_url |-> r.source_url.val,
                         text |-> section_text(files[r.local_json.val])]))

\* the curated document: the number after "Included pages:" and the sections
build_curated_markdown(catalog_rows, files) ==
    [included_pages |-> Len(curated_rows_of(catalog_rows)),
     sections |-> curated_sections(curated_rows_of(catalog_rows), files, 1, <<>>)]

build_fulltext_markdown(catalog_rows, files) ==
    fulltext_sections(catalog_rows, files, 1, <<>>)

build_raw_markdown(catalog_rows) == raw_sections(catalog_rows, 1, <<>>)

\* the dict `catalog` of sync_sources: its totals and its rows (the time
\* stamp and the three constant URLs and prefix are left out)
catalog_of(ns, catalog_rows, ok) ==
    [total_nodes |-> Len(ns), download_ok |-> ok, download_error |-> Len(ns) - ok,
     rows |-> catalog_rows]

-----------------------------------------------------------------------------
(* Index forests given to collect_hig_nodes *)

PATH_A == PAGE_PREFIX \o <<"/", "a">>
PATH_AB == PAGE_PREFIX \o <<"/", "a", "/", "b">>
PATH_UPPER == PAGE_PREFIX \o <<"/", "B">>
PATH_OUT == <<"/", "d", "e", "s", "i", "g", "n">>

\* the <<path, title, type>> of the nodes of an index: an accepted path with
\* a title and a type, the same path with neither, a second accepted path
\* below the first, a third that sorts before both by code point only, a str
\* outside the prefix, and a node without a path
IndexEntries ==
    { <<Str(PATH_A), Str(<<"T">>), Str(ARTICLE)>>,
      <<Str(PATH_A), None, None>>,
      <<Str(PATH_AB), Str(<<"T">>), Str(ARTICLE)>>,
      <<Str(PATH_UPPER), None, Str(SYMBOL)>>,
      <<Str(PATH_OUT), Str(<<"T">>), Str(ARTICLE)>>,
      <<None, Str(<<"T">>), None>> }

\* a node of the index: a key whose value is None is left out, and so is
\* "children" when the node has none, as in the index the remote serves
index_node(path, title, type, children) ==
  Dict(
    SelectSeq(<< <<"path", path>>, <<"title", title>>, <<"type", type>> >>,
              LAMBDA item : item[2] # None)
    \o (IF children = <<>> THEN <<>> ELSE << <<"children", List(children)>> >>))

RECURSIVE ForestsOf(_)
RECURSIVE TreesOf(_)

\* the forests of exactly n entries
ForestsOf(n) ==
    IF n = 0 THEN {<<>>}
    ELSE UNION {LET first == TreesOf(k)
                    others == ForestsOf(n - k)
                IN  {<<t>> \o rest : t \in first, rest \in others} :
                k \in 1..n}

\* the forest entries of exactly n entries: a node with its subtree, or an
\* item that is no dict
TreesOf(n) ==
    LET below == ForestsOf(n - 1)
    IN  {index_node(e[1], e[2], e[3], c) : e \in IndexEntries, c \in below}
        \cup (IF n = 1 THEN {Str(<<"x">>)} ELSE {})

\* the forests of at most n entries
ForestsUpTo(n) == UNION {ForestsOf(k) : k \in 0..n}

index_of(forest) ==
    Dict(<< <<"interfaceLanguages", Dict(<< <<"swift", List(forest)>> >>)>> >>)

\* the orders of a sequence
Orders(s) ==
    {[i \in 1..Len(s) |-> s[f[i]]] :
        f \in {g \in [1..Len(s) -> 1..Len(s)] :
                 \A i, j \in 1..Len(s) : g[i] = g[j] => i = j}}

RECURSIVE Reordered(_)
RECURSIVE ReorderedEach(_)

\* a forest with its entries, and the children of any node, in any order
Reordered(forest) == UNION {ReorderedEach(o) : o \in Orders(forest)}

\* a forest with its entries in place and the children of any node reordered
ReorderedEach(forest) ==
    IF forest = <<>> THEN {<<>>}
    ELSE LET h == Head(forest)
             hs == IF isinstance(h, "dict")
                   THEN {index_node(get(h, "path"), get(h, "title"),
                                    get(h, "type"), c) :
                            c \in Reordered(get(h, "children").val)}
                   ELSE {h}
         IN  {<<x>> \o rest : x \in hs, rest \in ReorderedEach(Tail(forest))}

-----------------------------------------------------------------------------
(* Values of the variables a function under study does not use *)

IdleCollect ==
    /\ index_json = None
    /\ walked = <<>>
    /\ nodes = <<>>
    /\ index_json2 = None
    /\ nodes2 = <<>>

IdleText ==
    /\ page_json = None
    /\ fragments = <<>>
    /\ compact = <<>>
    /\ full_text = <<>>
    /\ full_text2 = <<>>

IdleFilter ==
    /\ candidate = [path |-> None, kind |-> None, download_status |-> None]
    /\ verdict = FALSE

\* nothing fetched, nothing written
IdleRun ==
    /\ rows = <<>>
    /\ ok_count = 0
    /\ requests = <<>>
    /\ index_fetch = "none"
    /\ mirror = <<>>
    /\ faults = 0
    /\ written = {}
    /\ catalog = catalog_of(<<>>, <<>>, 0)
    /\ raw_md = <<>>
    /\ fulltext_md = <<>>
    /\ curated_md = [included_pages |-> 0, sections |-> <<>>]
    /\ uncaught = ""
    /\ exit_code = 0

-----------------------------------------------------------------------------
(* Page documents given to extract_full_text *)

text_item(s) == Dict(<< <<"text", Str(s)>> >>)

\* the items of a page's content: a text leaf (plain, with whitespace around
\* it, of whitespace only), a dict whose "text" is no str and holds two leaves,
\* beside a str under another key, and a str that is no leaf
PageItems ==
    { text_item(<<"a">>),
      text_item(<<"b">>),
      text_item(<<" ", "a", "\n">>),
      text_item(<<"a", "\t", " ", "b">>),
      text_item(<<" ", "\n">>),
      Dict(<< <<"title", Str(<<"c">>)>>,
              <<"text", List(<<text_item(<<"b">>), text_item(<<"a">>)>>)>> >>),
      Str(<<"a">>) }

RECURSIVE ItemLists(_)
\* the lists of exactly n items
ItemLists(n) ==
    IF n = 0 THEN {<<>>}
    ELSE LET shorter == ItemLists(n - 1)
         IN  {Append(l, x) : l \in shorter, x \in PageItems}

page_of(items) ==
    Dict(<< <<"kind", Str(ARTICLE)>>, <<"primaryContentSections", List(items)>> >>)

\* the pages of at most n items
PagesUpTo(n) == {page_of(l) : l \in UNION {ItemLists(k) : k \in 0..n}}

-----------------------------------------------------------------------------
(* extract_full_text applied to a page, and to its own output *)

InitText ==
    /\ pc = "flatten"
    /\ page_json \in PagesUpTo(MaxItems)
    /\ fragments = <<>>
    /\ compact = <<>>
    /\ full_text = <<>>
    /\ full_text2 = <<>>
    /\ IdleCollect
    /\ IdleFilter
    /\ IdleRun

Flatten ==
    /\ pc = "flatten"
    /\ fragments' = fragments_of(page_json)
    /\ compact' = compact_of(fragments_of(page_json), 1, <<>>, NoLast)
    /\ full_text' = extract_full_text(page_json)
    /\ pc' = "flattened"
    /\ UNCHANGED <<page_json, full_text2, collect_vars, filter_vars, run_vars>>

Reflatten ==
    /\ pc = "flattened"
    /\ full_text2' = extract_full_text(Dict(<< <<"text", Str(full_text)>> >>))
    /\ pc' = "reflattened"
    /\ UNCHANGED <<page_json, fragments, compact, full_text, collect_vars, filter_vars,
                   run_vars>>

NextText == Flatten \/ Reflatten

SpecText == InitText /\ [][NextText]_vars

-----------------------------------------------------------------------------
(* collect_hig_nodes applied to an index, and to a reordering of it *)

InitCollect ==
    /\ pc = "collect"
    /\ index_json \in {index_of(f) : f \in ForestsUpTo(MaxNodes)}
    /\ walked = <<>>
    /\ nodes = <<>>
    /\ index_json2 = index_json
    /\ nodes2 = <<>>
    /\ IdleText
    /\ IdleFilter
    /\ IdleRun

Collect ==
    /\ pc = "collect"
    /\ walked' = walked_nodes(index_json)
    /\ nodes' = collect_hig_nodes(index_json)
    /\ pc' = "collected"
    /\ UNCHANGED <<index_json, index_json2, nodes2, text_vars, filter_vars, run_vars>>

CollectReordered ==
    /\ pc = "collected"
    /\ \E f \in Reordered(swift_tree_of(index_json)) :
          /\ index_json2' = index_of(f)
          /\ nodes2' = collect_hig_nodes(index_of(f))
    /\ pc' = "compared"
    /\ UNCHANGED <<index_json, walked, nodes, text_vars, filter_vars, run_vars>>

NextCollect == Collect \/ CollectReordered

SpecCollect == InitCollect /\ [][NextCollect]_vars

-----------------------------------------------------------------------------
(* is_curated_ios_row applied to a row *)

PATH_MACOS ==
    PAGE_PREFIX \o <<"/", "d", "e", "s", "i", "g", "n", "i", "n", "g", "-",
                     "f", "o", "r", "-", "m", "a", "c", "o", "s">>

\* values of a row's "path": a page of each excluded slug, pages of other
\* slugs (one below an excluded page, one a character short of an excluded
\* slug, one ending in "/"), an excluded slug with no "/" before it, the
\* empty str and a value that is no str
FilterPaths ==
    {Str(PAGE_PREFIX \o <<"/">> \o slug) : slug \in NON_IOS_SLUGS}
    \cup { Str(PATH_A),
           Str(PATH_MACOS \o <<"/", "a">>),
           Str(SubSeq(PATH_MACOS, 1, Len(PATH_MACOS) - 1)),
           Str(PATH_MACOS \o <<"/">>),
           Str(SubSeq(PATH_MACOS, Len(PAGE_PREFIX) + 2, Len(PATH_MACOS))),
           Str(<<>>),
           None }

FilterKinds == {Str(ARTICLE), Str(SYMBOL), Str(UNKNOWN), None}
FilterStatuses == {Str(OK), Str(ERROR), Str(PENDING), None}

InitFilter ==
    /\ pc = "filter"
    /\ candidate \in [path : FilterPaths, kind : FilterKinds,
                      download_status : FilterStatuses]
    /\ verdict = FALSE
    /\ IdleCollect
    /\ IdleText
    /\ IdleRun

ApplyFilter ==
    /\ pc = "filter"
    /\ verdict' = is_curated_ios_row(candidate)
    /\ pc' = "filtered"
    /\ UNCHANGED <<candidate, collect_vars, text_vars, run_vars>>

NextFilter == ApplyFilter

SpecFilter == InitFilter /\ [][NextFilter]_vars

-----------------------------------------------------------------------------
(* The sync run: main and sync_sources *)

\* the pages the remote serves: one with an abstract and text, one with neither
PAGE_TEXT ==
    Dict(<< <<"abstract", List(<<Dict(<< <<"type", Str(<<"t">>)>>,
                                         <<"text", Str(<<"a", " ", " ", "b">>)>> >>)>>)>>,
            <<"primaryContentSections",
              List(<<text_item(<<"a">>), text_item(<<"a">>), text_item(<<"b">>)>>)>> >>)
PAGE_EMPTY == Dict(<< <<"kind", Str(ARTICLE)>> >>)
\* a JSON document that is no object
PAGE_LIST == List(<<text_item(<<"a">>)>>)

\* the answers of the remote to the GET of a page
PageResponses ==
    { Response("HTTPError", TRUE, TRUE, None),
      Response("TimeoutError", TRUE, TRUE, None),
      Response("", FALSE, TRUE, None),
      Response("", TRUE, FALSE, None),
      Response("", TRUE, TRUE, PAGE_TEXT),
      Response("", TRUE, TRUE, PAGE_EMPTY),
      Response("", TRUE, TRUE, PAGE_LIST) }

\* the outcomes of write_json on a mirrored file
DiskOutcomes == {"ok", "refused", "partial"}

\* the indexes the remote serves: no node; a page with a page below it, both
\* articles; an excluded platform page before a page with a symbol below it
IndexDocs ==
    { index_of(<<>>),
      index_of(<<index_node(Str(PATH_A), Str(<<"T">>), Str(ARTICLE),
                    <<index_node(Str(PATH_AB), None, Str(ARTICLE), <<>>)>>)>>),
      index_of(<<index_node(Str(PATH_MACOS), Str(<<"M">>), Str(ARTICLE), <<>>),
                 index_node(Str(PATH_A), Str(<<"T">>), Str(ARTICLE),
                    <<index_node(Str(PATH_AB), None, Str(SYMBOL), <<>>)>>)>>) }

\* the answers of the remote to the GET of the index
IndexResponses ==
    { Response("URLError", TRUE, TRUE, None),
      Response("", TRUE, FALSE, None) }
    \cup {Response("", TRUE, TRUE, d) : d \in IndexDocs}

Init ==
    /\ pc = "main"
    /\ IdleCollect
    /\ IdleText
    /\ IdleFilter
    /\ IdleRun

\* an exception nothing catches leaves sync_sources and main: the interpreter
\* prints the traceback and exits with status 1
Abort(exc) ==
    /\ pc' = "exit"
    /\ uncaught' = exc
    /\ exit_code' = 1

\* main: the skill directory holds no SKILL.md
MainInvalidDir ==
    /\ pc = "main"
    /\ pc' = "exit"
    /\ exit_code' = 1
    /\ UNCHANGED <<collect_vars, text_vars, filter_vars, rows, ok_count, requests,
                   index_fetch, mirror, faults, written, catalog, raw_md,
                   fulltext_md, curated_md, uncaught>>

\* main: the skill directory is valid, sync_sources is called
MainCallsSync ==
    /\ pc = "main"
    /\ pc' = "fetch_index"
    /\ UNCHANGED <<collect_vars, text_vars, filter_vars, run_vars>>

\* an index fetch whose failure is swallowed: the run goes on with no index
FetchIndexTolerant ==
    /\ pc = "fetch_index"
    /\ requests' = Append(requests, INDEX_URL)
    /\ \E response \in IndexResponses :
          LET got == http_get_json(response)
          IN  IF got.exc # ""
              THEN /\ pc' = "collect_nodes"
                   /\ index_fetch' = "failed"
                   /\ index_json' = Dict(<<>>)
              ELSE /\ pc' = "collect_nodes"
                   /\ index_fetch' = "ok"
                   /\ index_json' = got.value
    /\ UNCHANGED <<walked, nodes, index_json2, nodes2, text_vars, filter_vars,
                   rows, ok_count, mirror, faults, written, catalog, raw_md,
                   fulltext_md, curated_md, uncaught, exit_code>>

\* sync_sources: index_json = http_get_json(INDEX_URL), outside any try
FetchIndex ==
    /\ pc = "fetch_index"
    /\ requests' = Append(requests, INDEX_URL)
    /\ \E response \in IndexResponses :
          LET got == http_get_json(response)
          IN  IF got.exc # ""
              THEN /\ Abort(got.exc)
                   /\ index_fetch' = "failed"
                   /\ UNCHANGED index_json
              ELSE /\ pc' = "collect_nodes"
                   /\ index_fetch' = "ok"
                   /\ index_json' = got.value
                   /\ UNCHANGED <<uncaught, exit_code>>
    /\ UNCHANGED <<walked, nodes, index_json2, nodes2, text_vars, filter_vars,
                   rows, ok_count, mirror, faults, written, catalog, raw_md,
                   fulltext_md, curated_md>>

\* sync_sources: the index is written, nodes = collect_hig_nodes(index_json),
\* rows = [], ok_count = 0
CollectNodes ==
    /\ pc = "collect_nodes"
    /\ written' = written \cup {"index"}
    /\ walked' = walked_nodes(index_json)
    /\ nodes' = collect_hig_nodes(index_json)
    /\ rows' = <<>>
    /\ ok_count' = 0
    /\ pc' = IF collect_hig_nodes(index_json) = <<>> THEN "write_catalog"
             ELSE "fetch_pages"
    /\ UNCHANGED <<index_json, index_json2, nodes2, text_vars, filter_vars,
                   requests, index_fetch, mirror, faults, catalog, raw_md,
                   fulltext_md, curated_md, uncaught, exit_code>>

\* sync_sources: one pass of the loop over nodes, for the node after the rows
\* made so far
FetchPage ==
    /\ pc = "fetch_pages"
    /\ LET node == nodes[Len(rows) + 1]
           pending == pending_row(node)
       IN  /\ requests' = Append(requests, pending.data_url.val)
           /\ \E response \in PageResponses, disk \in DiskOutcomes :
                LET tried == try_page(response, disk)
                IN  /\ mirror' = IF tried.stores
                                 THEN (pending.local_json.val :> tried.holds) @@ mirror
                                 ELSE mirror
                    /\ IF tried.exc # "" /\ ~page_except(tried.exc)
                       THEN /\ Abort(tried.exc)
                            /\ UNCHANGED <<rows, ok_count>>
                       ELSE /\ rows' = Append(rows, fetched_row(pending, tried))
                            /\ ok_count' = IF tried.exc = "" THEN ok_count + 1
                                           ELSE ok_count
                            /\ pc' = IF Len(rows) + 1 = Len(nodes)
                                     THEN "write_catalog" ELSE "fetch_pages"
                            /\ UNCHANGED <<uncaught, exit_code>>
    /\ UNCHANGED <<collect_vars, text_vars, filter_vars, index_fetch, faults,
                   written, catalog, raw_md, fulltext_md, curated_md>>

\* outside the program: a mirrored file is removed or damaged before the
\* corpora are assembled
MirrorFault ==
    /\ pc \in {"fetch_pages", "write_catalog", "build_raw", "build_fulltext"}
    /\ faults < MaxFaults
    /\ faults' = faults + 1
    /\ \E f \in DOMAIN mirror :
          \/ mirror' = [g \in DOMAIN mirror \ {f} |-> mirror[g]]
          \/ mirror' = [mirror EXCEPT ![f] = CORRUPT]
    /\ UNCHANGED <<pc, collect_vars, text_vars, filter_vars, rows, ok_count,
                   requests, index_fetch, written, catalog, raw_md, fulltext_md,
                   curated_md, uncaught, exit_code>>

\* sync_sources: write_json(raw_dir / "catalog.json", catalog)
WriteCatalog ==
    /\ pc = "write_catalog"
    /\ catalog' = catalog_of(nodes, rows, ok_count)
    /\ written' = written \cup {"catalog"}
    /\ pc' = "build_raw"
    /\ UNCHANGED <<collect_vars, text_vars, filter_vars, rows, ok_count, requests,
                   index_fetch, mirror, faults, raw_md, fulltext_md, curated_md,
                   uncaught, exit_code>>

BuildRaw ==
    /\ pc = "build_raw"
    /\ raw_md' = build_raw_markdown(rows)
    /\ written' = written \cup {"raw"}
    /\ pc' = "build_fulltext"
    /\ UNCHANGED <<collect_vars, text_vars, filter_vars, rows, ok_count, requests,
                   index_fetch, mirror, faults, catalog, fulltext_md, curated_md,
                   uncaught, exit_code>>

BuildFulltext ==
    /\ pc = "build_fulltext"
    /\ fulltext_md' = build_fulltext_markdown(rows, mirror)
    /\ written' = written \cup {"fulltext"}
    /\ pc' = "build_curated"
    /\ UNCHANGED <<collect_vars, text_vars, filter_vars, rows, ok_count, requests,
                   index_fetch, mirror, faults, catalog, raw_md, curated_md,
                   uncaught, exit_code>>

BuildCurated ==
    /\ pc = "build_curated"
    /\ curated_md' = build_curated_markdown(rows, mirror)
    /\ written' = written \cup {"curated"}
    /\ pc' = "return"
    /\ UNCHANGED <<collect_vars, text_vars, filter_vars, rows, ok_count, requests,
                   index_fetch, mirror, faults, catalog, raw_md, fulltext_md,
                   uncaught, exit_code>>

\* sync_sources returns the catalog; main prints the totals and returns 0
MainReturns ==
    /\ pc = "return"
    /\ pc' = "exit"
    /\ exit_code' = 0
    /\ UNCHANGED <<collect_vars, text_vars, filter_vars, rows, ok_count, requests,
                   index_fetch, mirror, faults, written, catalog, raw_md,
                   fulltext_md, curated_md, uncaught>>

Next ==
    \/ MainInvalidDir
    \/ MainCallsSync
    \/ FetchIndex
    \/ CollectNodes
    \/ FetchPage
    \/ MirrorFault
    \/ WriteCatalog
    \/ BuildRaw
    \/ BuildFulltext
    \/ BuildCurated
    \/ MainReturns

Spec == Init /\ [][Next]_vars

-----------------------------------------------------------------------------
(* Properties of NodeCollector *)

Range(s) == {s[i] : i \in 1..Len(s)}

\* a path value is a str that begins with the characters of PAGE_PREFIX
HasPagePrefix(p) ==
    /\ p.type = "str"
    /\ Len(p.val) >= Len(PAGE_PREFIX)
    /\ \A i \in 1..Len(PAGE_PREFIX) : p.val[i] = PAGE_PREFIX[i]

\* the dict entries of a forest, at every depth
RECURSIVE EntriesOf(_)
EntriesOf(forest) ==
    UNION {IF e.type = "dict"
           THEN {e} \cup EntriesOf(get(e, "children").val)
           ELSE {} : e \in Range(forest)}

\* the accepted paths of a forest
AcceptedPaths(forest) ==
    {get(e, "path").val : e \in {x \in EntriesOf(forest) : HasPagePrefix(get(x, "path"))}}

\* the last path of a chain of ancestor paths (outermost first) that has the
\* prefix, or None
RECURSIVE NearestAccepted(_)
NearestAccepted(chain) ==
    IF chain = <<>> THEN None
    ELSE IF HasPagePrefix(chain[Len(chain)]) THEN chain[Len(chain)]
    ELSE NearestAccepted(SubSeq(chain, 1, Len(chain) - 1))

\* the <<path, parent_path>> of the accepted nodes of a forest in pre-order,
\* each parent found from the node's chain of proper ancestors
RECURSIVE PreOrder(_, _)
PreOrder(forest, chain) ==
    IF forest = <<>> THEN <<>>
    ELSE LET h == Head(forest)
         IN  (IF h.type = "dict"
              THEN (IF HasPagePrefix(get(h, "path"))
                    THEN << <<get(h, "path").val, NearestAccepted(chain)>> >>
                    ELSE <<>>)
                   \o PreOrder(get(h, "children").val, Append(chain, get(h, "path")))
              ELSE <<>>)
             \o PreOrder(Tail(forest), chain)

Collected == pc \in {"collected", "compared"}

\* C1: the list collect_hig_nodes returns is strictly ascending by path, holds
\* exactly the distinct accepted paths of the forest, and for every path holds
\* the Node of the occurrence the pre-order walk visited last.
C1_SortedDistinctLastWins ==
    Collected =>
        /\ \A i \in 1..(Len(nodes) - 1) : str_lt(nodes[i].path, nodes[i + 1].path)
        /\ {n.path : n \in Range(nodes)} = AcceptedPaths(swift_tree_of(index_json))
        /\ \A i \in 1..Len(nodes) :
              LET occ == {j \in 1..Len(walked) : walked[j].path = nodes[i].path}
              IN  /\ occ # {}
                  /\ nodes[i] = walked[CHOOSE j \in occ : \A k \in occ : k <= j]

\* a forest was collected in which one path occurs twice with different titles
C1_Witness ==
    /\ Collected
    /\ \E i, j \in 1..Len(walked) :
          /\ i < j
          /\ walked[i].path = walked[j].path
          /\ walked[i].title # walked[j].title

\* C9 as claimed: reordering the roots or the children of any node leaves the
\* whole output list unchanged, also when a path occurs more than once.
C9_OrderIndependent ==
    pc = "compared" => nodes2 = nodes

\* C9 as amended: reordering leaves the paths of the output and their order
\* unchanged, every Node of the output is still the Node of one occurrence of
\* its path, and the whole list is unchanged when no accepted path occurs more
\* than once in the forest.
C9_PathsOrderIndependent ==
    pc = "compared" =>
        /\ [i \in 1..Len(nodes2) |-> nodes2[i].path]
              = [i \in 1..Len(nodes) |-> nodes[i].path]
        /\ \A i \in 1..Len(nodes2) : nodes2[i] \in Range(walked)
        /\ (\A i, j \in 1..Len(walked) : walked[i].path = walked[j].path => i = j)
              => nodes2 = nodes

\* a forest that visits its accepted paths out of order was collected in a
\* different order of its entries
C9_Witness ==
    /\ pc = "compared"
    /\ index_json2 # index_json
    /\ Len(nodes) >= 2
    /\ \E i \in 1..(Len(walked) - 1) : str_lt(walked[i + 1].path, walked[i].path)

\* C10: walk_nodes accepts exactly the nodes whose path is a str with the
\* prefix, in pre-order, and gives each the path of its nearest accepted proper
\* ancestor (None without one); a parent_path that is set names a path
\* accepted earlier in the walk.
C10_NearestAcceptedAncestor ==
    Collected =>
        /\ [i \in 1..Len(walked) |-> <<walked[i].path, walked[i].parent_path>>]
              = PreOrder(swift_tree_of(index_json), <<>>)
        /\ \A j \in 1..Len(walked) :
              walked[j].parent_path # None =>
                \E i \in 1..(j - 1) : walked[i].path = walked[j].parent_path.val

\* an accepted node was walked below a node that is not accepted, itself
\* below an accepted one
C10_Witness ==
    /\ Collected
    /\ \E r \in Range(swift_tree_of(index_json)) :
          /\ r.type = "dict"
          /\ HasPagePrefix(get(r, "path"))
          /\ \E c \in Range(get(r, "children").val) :
                /\ c.type = "dict"
                /\ ~HasPagePrefix(get(c, "path"))
                /\ \E g \in Range(get(c, "children").val) :
                      /\ g.type = "dict"
                      /\ HasPagePrefix(get(g, "path"))
                      /\ \E j \in 1..Len(walked) :
                            /\ walked[j].path = get(g, "path").val
                            /\ walked[j].parent_path = get(r, "path")

-----------------------------------------------------------------------------
(* Properties of TextFlattener *)

\* the elements of a sequence that differ from their immediate predecessor
RECURSIVE DropAdjacentRepeats(_)
DropAdjacentRepeats(s) ==
    IF Len(s) <= 1 THEN s
    ELSE LET front == DropAdjacentRepeats(SubSeq(s, 1, Len(s) - 1))
         IN  IF s[Len(s)] = s[Len(s) - 1] THEN front ELSE Append(front, s[Len(s)])

Flattened == pc \in {"flattened", "reflattened"}

\* C4 as claimed: flattening {"text": extract_full_text(J)} gives
\* extract_full_text(J) again, also when that holds two or more fragments.
C4_Idempotent ==
    pc = "reflattened" => full_text2 = full_text

\* C4 as amended: flattening {"text": extract_full_text(J)} gives the compacted
\* fragments of J joined by one space; that is extract_full_text(J) when J has
\* at most one compacted fragment, and differs from it when J has two or more.
C4_IdempotentUpToSeparator ==
    pc = "reflattened" =>
        /\ full_text2 = join(<<" ">>, compact)
        /\ Len(compact) <= 1 => full_text2 = full_text
        /\ Len(compact) >= 2 => full_text2 # full_text

\* the output of a pass of two or more fragments was flattened again
C4_Witness ==
    /\ pc = "reflattened"
    /\ Len(compact) >= 2
    /\ full_text2 = <<"a", " ", "b">>
    /\ full_text = <<"a", "\n", "\n", "b">>

\* C5: the compacted list is the fragment list without exactly the elements
\* equal to their immediate predecessor: no two neighbours are equal, the
\* survivors keep their order, a non-adjacent repeat stays, and the output is
\* the compacted list joined by a blank line.
C5_AdjacentRepeatsOnly ==
    Flattened =>
        /\ compact = DropAdjacentRepeats(fragments)
        /\ \A i \in 1..(Len(compact) - 1) : compact[i] # compact[i + 1]
        /\ full_text = join(PARAGRAPH, compact)

\* the fragments A, A, B, A were compacted to A, B, A
C5_Witness ==
    /\ Flattened
    /\ fragments = << <<"a">>, <<"a">>, <<"b">>, <<"a">> >>
    /\ compact = << <<"a">>, <<"b">>, <<"a">> >>

-----------------------------------------------------------------------------
(* Properties of PageFilter *)

\* the part of a str after its last "/", the whole str when it has none
LastSegment(s) ==
    LET k == CHOOSE k \in 0..Len(s) :
                /\ \A i \in (k + 1)..Len(s) : s[i] # "/"
                /\ k = 0 \/ s[k] = "/"
    IN  SubSeq(s, k + 1, Len(s))

\* the contract of PageFilter
PassesPageFilter(r) ==
    /\ r.download_status = Str(OK)
    /\ r.kind = Str(ARTICLE)
    /\ r.path.type = "str"
    /\ LastSegment(r.path.val) \notin NON_IOS_SLUGS

\* C6: is_curated_ios_row returns true exactly for the rows with status "ok",
\* kind "article" and a str path whose last segment is not an excluded slug,
\* and it leaves the row, and everything else, as it was.
C6_PageFilter ==
    [][ApplyFilter =>
          /\ verdict' = PassesPageFilter(candidate)
          /\ candidate' = candidate
          /\ UNCHANGED <<collect_vars, text_vars, run_vars>>]_vars

\* a row with status "ok", kind "article" and an excluded slug was rejected
C6_Witness ==
    /\ pc = "filtered"
    /\ candidate.download_status = Str(OK)
    /\ candidate.kind = Str(ARTICLE)
    /\ candidate.path = Str(PATH_MACOS)
    /\ verdict = FALSE

-----------------------------------------------------------------------------
(* Properties of the sync run *)

PathsOf(sections) == [i \in 1..Len(sections) |-> sections[i].path]

RowPaths(rs) == [i \in 1..Len(rs) |-> rs[i].path.val]

\* the mirrored JSON of a row can be read
Mirrored(r) ==
    /\ r.local_json.val \in DOMAIN mirror
    /\ mirror[r.local_json.val].type \in {"dict", "list"}

Fetched(r) == r.download_status = Str(OK)

InFulltext(r) == Fetched(r) /\ Mirrored(r)

InCurated(r) == InFulltext(r) /\ PassesPageFilter(r)

\* C2 as claimed: once the index is fetched, no outcome of a page fetch aborts
\* the run: it ends with status 0, a catalog of one row per node, each "ok" or
\* "error", and the three corpora written.
C2_PageFailureNeverAborts ==
    (pc = "exit" /\ index_fetch = "ok") =>
        /\ exit_code = 0
        /\ {"catalog", "raw", "fulltext", "curated"} \subseteq written
        /\ Len(catalog.rows) = Len(nodes)
        /\ \A i \in 1..Len(catalog.rows) :
              catalog.rows[i].download_status \in {Str(OK), Str(ERROR)}

\* C3: when the fetch of the index fails the process exits with status 1,
\* having collected no node, requested no page and written neither the
\* catalog nor a corpus.
C3_IndexFailureIsFatal ==
    index_fetch = "failed" =>
        /\ pc = "exit"
        /\ exit_code = 1
        /\ written = {}
        /\ nodes = <<>>
        /\ rows = <<>>
        /\ requests = <<INDEX_URL>>

\* the fetch of the index failed and the process has exited
C3_Witness ==
    /\ index_fetch = "failed"
    /\ pc = "exit"
    /\ uncaught \in {"URLError", "JSONDecodeError"}

\* C7 as claimed: the number after "Included pages:" is the number of sections
\* of the curated dump.
C7_IncludedPagesCount ==
    "curated" \in written => curated_md.included_pages = Len(curated_md.sections)

====
